---- MODULE Spec2Model ----
(***************************************************************************)
(* Order and inventory engine of server/index.js: the JSON snapshot        *)
(* (accounts, items, orders) and the request handlers that load it, mutate *)
(* it and save it.  Each handler is one atomic action; the response of the *)
(* last request is kept in res.  SpecRace alone splits the order handler   *)
(* into its read and its write, to look at requests that arrive together.  *)
(***************************************************************************)
EXTENDS Integers, Sequences, FiniteSets

\* ------------------------------------------------------------- bounds
MaxOrders == 2
MaxStock == 3
InitStock == 1
MaxItems == 2
MaxAccounts == 2

\* ------------------------------------------------------------- JS values
\* A field or request parameter that is absent (undefined), and null.
Undefined == "<undefined>"
Null == "<null>"

\* String.prototype.toLowerCase on the strings the requests use.
Lower(s) ==
    CASE s = "Guest" -> "guest"
      [] s = "Admin" -> "admin"
      [] s = "ANN" -> "ann"
      [] OTHER -> s

\* String.prototype.trim on the strings the requests use.
Trim(s) ==
    CASE s = " A " -> "A"
      [] s = " Ann Lee " -> "Ann Lee"
      [] OTHER -> s

\* String.prototype.length of the trimmed names and of the passwords.
StrLen(s) ==
    CASE s = "" -> 0
      [] s = "A" -> 1
      [] s = "Ann Lee" -> 7
      [] s = "abc" -> 3
      [] s = "annpw" -> 5
      [] s = "pass1" -> 5

\* JS truthiness of a string-or-undefined value.
Truthy(s) == s # Undefined /\ s # Null /\ s # ""

\* A destructuring default: `x = d` applies only when x is undefined.
Default(x, d) == IF x = Undefined THEN d ELSE x

\* An optional number is <<>> (undefined) or <<n>>; `quantity = 1`.
DefaultNum(x, d) == IF x = <<>> THEN d ELSE x[1]

\* bcrypt.hashSync / bcrypt.compareSync, as an opaque credential check.
Hash(password) == <<"$2", password>>
CompareSync(password, hash) == hash = Hash(password)

\* ------------------------------------------------------------- inputs
AdminPassword == "GoofyGuy1!"
ArrivalDay == "2026-01-01"
Now == "<now>"

Tokens == {"t1", "t2"}
Quantities == {<<>>, <<-1>>, <<1>>, <<2>>}
ItemIds == {0, 1, 2, 3}
OrderIds == 0..(MaxOrders + 1)

\* The bodies of POST /api/order: every buyer with every item and quantity,
\* and the guest purchases without a usable full name.
OrderBodies ==
    [username : {Undefined, "", "Guest", "ann"}, buyerFullName : {" Ann Lee "},
     itemId : ItemIds, quantity : Quantities]
    \cup [username : {Undefined, "Guest", "ann"}, buyerFullName : {Undefined, " A "},
          itemId : {1}, quantity : {<<1>>}]

\* The credentials a cancel request carries: username, password, cancelToken.
Credentials ==
    [username : {"Admin"}, password : {AdminPassword, "wrong"}, cancelToken : {Undefined}]
    \cup [username : {"ANN", "ann", "Guest", "bob"}, password : {Undefined, "wrong"},
          cancelToken : {Undefined}]
    \cup [username : {Undefined, "", "bob"}, password : {Undefined},
          cancelToken : {Undefined, ""} \cup Tokens]

\* The bodies of POST /api/cancel-order.
CancelBodies ==
    {[orderId |-> id, username |-> c.username, password |-> c.password,
      cancelToken |-> c.cancelToken] : id \in OrderIds, c \in Credentials}

AdminLogin == [username |-> "Admin", password |-> AdminPassword]
AdminLogins ==
    {AdminLogin,
     [username |-> "admin", password |-> "wrong"],
     [username |-> "ann", password |-> AdminPassword],
     [username |-> Undefined, password |-> Undefined]}

\* The bodies of POST /api/admin/update-arrival and /api/admin/takedown-item.
ArrivalBodies ==
    {[username |-> a.username, password |-> a.password, orderId |-> id,
      arrivalDate |-> day] :
        a \in AdminLogins, id \in OrderIds, day \in {Undefined, "", ArrivalDay}}
TakedownBodies ==
    {[username |-> a.username, password |-> a.password, itemId |-> id] :
        a \in AdminLogins, id \in ItemIds}

\* newStock and stock are numbers the administrator types: any integer.
StockValues == {<<-1>>, <<0>>, <<2>>}

\* The bodies of POST /api/admin/update-stock and /api/admin/create-item.
StockBodies ==
    {[username |-> a.username, password |-> a.password, itemId |-> id,
      newStock |-> n] : a \in AdminLogins, id \in ItemIds, n \in StockValues}
CreateBodies ==
    {[username |-> a.username, password |-> a.password, name |-> name,
      price |-> price, stock |-> n] :
        a \in AdminLogins, name \in {Undefined, "", "Hat"},
        price \in {<<>>, <<250>>}, n \in {<<>>} \cup StockValues}

\* The requests of the shop's daily run: a registered buyer orders one Widget
\* (no quantity given) or one or two Scarves and cancels, and the administrator
\* schedules, cancels and takes items down.
ShopOrderBodies ==
    [username : {"ann"}, buyerFullName : {Undefined}, itemId : {1},
     quantity : {<<>>}]
    \cup [username : {"ann"}, buyerFullName : {Undefined}, itemId : {2},
          quantity : {<<1>>, <<2>>}]
ShopCancelBodies ==
    [orderId : 1..MaxOrders, username : {"ANN", "Admin"}, password : {AdminPassword},
     cancelToken : {Undefined}]
    \cup [orderId : {1}, username : {"bob"}, password : {Undefined},
          cancelToken : {"t1"}]
ShopArrivalBodies ==
    [username : {"Admin"}, password : {AdminPassword}, orderId : 1..MaxOrders,
     arrivalDate : {"", ArrivalDay}]
    \cup [username : {"ann"}, password : {AdminPassword}, orderId : {1},
          arrivalDate : {ArrivalDay}]
ShopTakedownBodies ==
    [username : {"Admin"}, password : {AdminPassword}, itemId : {1, 2, 3}]
    \cup [username : {"admin"}, password : {"wrong"}, itemId : {1}]

\* The requests of the back office: a guest orders a Widget; the administrator
\* restocks the Widget, creates an item, schedules and cancels the first order
\* and takes the Widget down.
OfficeOrderBodies ==
    [username : {Undefined}, buyerFullName : {" Ann Lee "}, itemId : {1},
     quantity : {<<1>>}]
OfficeCancelBodies ==
    [orderId : {1}, username : {"Admin"},
     password : {AdminPassword, "wrong"}, cancelToken : {Undefined}]
OfficeStockBodies ==
    [username : {"Admin"}, password : {AdminPassword}, itemId : {1},
     newStock : {<<-1>>, <<2>>}]
    \cup [username : {"ann"}, password : {AdminPassword}, itemId : {1},
          newStock : {<<2>>}]
OfficeCreateBodies ==
    [username : {"Admin"}, password : {AdminPassword}, name : {"Hat"},
     price : {<<250>>}, stock : {<<>>, <<-1>>, <<2>>}]
    \cup [username : {"Admin"}, password : {AdminPassword, "wrong"}, name : {""},
          price : {<<>>}, stock : {<<>>}]
OfficeArrivalBodies ==
    [username : {"Admin"}, password : {AdminPassword}, orderId : {1},
     arrivalDate : {ArrivalDay}]
OfficeTakedownBodies ==
    [username : {"Admin"}, password : {AdminPassword}, itemId : {1}]

\* Orders for one Scarf under every kind of name: a guest, an account, the
\* administrator's name and a name that has no account.
NamedOrderBodies ==
    [username : {Undefined, "ann", "Admin", "bob"}, buyerFullName : {" Ann Lee "},
     itemId : {2}, quantity : {<<1>>}]

\* The bodies of POST /api/create-account: names in either case, a password
\* that is missing, too short or long enough, a full name that is missing,
\* too short or long enough.
AccountBodies ==
    [username : {Undefined, "ann", "ANN", "Admin", "bob"},
     password : {Undefined, "abc", "annpw", "pass1"},
     fullName : {Undefined, " A ", " Ann Lee "}]

\* The clients that send orders at the same time, and what they send.
Clients == {"c1", "c2"}
RaceOrderBodies ==
    [username : {"ann"}, buyerFullName : {Undefined}, itemId : {1, 2},
     quantity : {<<1>>, <<2>>}]

\* ------------------------------------------------------------- state
\* accounts, items, orders: the three arrays of data.json.
\* res: the response to the last request.
\* createdStock: history, the stock each item of the array was created with.
\* roundTrip: history, the order the last request placed: its item, its
\*   quantity, the stock the handler read, and whether the request right after
\*   it canceled that order; <<>> after any other request.
\* via: history, the branches of the authorization test that held for the
\*   cancel request the last step granted; <<>> after any other step.
\* requests: the POST /api/order requests of the clients that the server
\*   process holds: where each one stands, its body, the snapshot its handler
\*   loaded and its response.
VARIABLES accounts, items, orders, res, createdStock, roundTrip, via, requests

vars == <<accounts, items, orders, res, createdStock, roundTrip, via, requests>>

\* loadData(): the snapshot a handler works on.
loadData == [accounts |-> accounts, items |-> items, orders |-> orders]

\* Array.prototype.find returns the first element that passes the test: the
\* least of the indexes that pass, 0 if none does.
First(indexes) ==
    IF indexes = {} THEN 0
    ELSE CHOOSE k \in indexes : \A j \in indexes : k <= j

\* array.find(x => x.id === Number(id))
FindById(array, id) == First({k \in DOMAIN array : array[k].id = id})

\* Mutant: the order route's lookup without its active test.
FindItemIgnoringActive(itemsArray, id) ==
    First({k \in DOMAIN itemsArray : itemsArray[k].id = id})

\* data.items.find(it => it.id === Number(itemId) && it.active !== false)
FindActiveItem(itemsArray, id) ==
    First({k \in DOMAIN itemsArray :
              itemsArray[k].id = id /\ itemsArray[k].active # FALSE})

\* data.accounts.find(a => a.username.toLowerCase() === username.toLowerCase())
\* Mutant: a lookup that compares the names as typed.
FindAccountAsTyped(accountsArray, username) ==
    First({k \in DOMAIN accountsArray : accountsArray[k].username = username})

FindAccount(accountsArray, username) ==
    First({k \in DOMAIN accountsArray :
              Lower(accountsArray[k].username) = Lower(username)})

\* data.accounts.find(a => a.username && a.username.toLowerCase() === 'admin')
FindAdmin(accountsArray) ==
    First({k \in DOMAIN accountsArray :
              /\ Truthy(accountsArray[k].username)
              /\ Lower(accountsArray[k].username) = "admin"})

RECURSIVE MaxId(_)
MaxId(array) ==
    IF array = <<>> THEN 0
    ELSE LET m == MaxId(Tail(array))
         IN IF Head(array).id > m THEN Head(array).id ELSE m

\* Mutant: ids that start again at 1.
nextIdRestarts(array) == 1

nextId(array) == IF Len(array) = 0 THEN 1 ELSE MaxId(array) + 1

\* Responses: res.status(...).json({ error }), res.json({ order }), ...
NoOrder == <<>>
Error(status, message) ==
    [status |-> status, error |-> message, order |-> NoOrder, canceledOrders |-> -1]
OrderResponse(order) ==
    [status |-> 200, error |-> "", order |-> <<order>>, canceledOrders |-> -1]
TakedownResponse(count) ==
    [status |-> 200, error |-> "", order |-> NoOrder, canceledOrders |-> count]
ItemResponse(item) ==
    [status |-> 200, error |-> "", order |-> NoOrder, canceledOrders |-> -1,
     item |-> item]
ItemsResponse(list) ==
    [status |-> 200, error |-> "", order |-> NoOrder, canceledOrders |-> -1,
     listed |-> list]

\* A handler's outcome: the snapshot it leaves on disk and its response.  A
\* handler that returns before saveData leaves the snapshot it loaded.
\* Mutant: an error path that saves the snapshot with its orders dropped.
RejectAfterSave(d, status, message) ==
    [data |-> [d EXCEPT !.orders = <<>>], res |-> Error(status, message)]

Reject(d, status, message) == [data |-> d, res |-> Error(status, message)]
Saved(d, response) == [data |-> d, res |-> response]

\* ------------------------------------------------------------- GET /api/items
\* Mutant: a listing that shows every item.
ListedAnyway(item) == TRUE

\* i.active !== false
Listed(item) == item.active # FALSE

\* data.items.filter(i => i.active !== false); nothing is saved.
GetItems(d) == [data |-> d, res |-> ItemsResponse(SelectSeq(d.items, Listed))]

\* ------------------------------------------------------------- POST /api/create-account
AccountResponse(account) ==
    [status |-> 200, error |-> "", order |-> NoOrder, canceledOrders |-> -1,
     account |-> account]

\* !password || typeof password !== 'string' || password.length < 4
InvalidPassword(password) == ~Truthy(password) \/ StrLen(password) < 4

\* !fullName || typeof fullName !== 'string' || fullName.trim().length < 2
FullNameMissing(fullName) == ~Truthy(fullName) \/ StrLen(Trim(fullName)) < 2

\* The account the route stores for a new username.
NewAccount(body) ==
    [username |-> body.username,
     fullName |-> body.fullName,
     createdAt |-> Now,
     isAdmin |-> Lower(body.username) = "admin",
     passwordHash |-> Hash(body.password)]

\* The account as the route answers it: without its passwordHash.
PublicAccount(a) ==
    [username |-> a.username,
     fullName |-> IF Truthy(a.fullName) THEN a.fullName ELSE "",
     createdAt |-> IF "createdAt" \in DOMAIN a THEN a.createdAt ELSE Undefined,
     isAdmin |-> a.isAdmin = TRUE]

PostCreateAccount(d, body) ==
    LET exists == FindAccount(d.accounts, body.username)
    IN IF ~Truthy(body.username) THEN Reject(d, 400, "Invalid username")
       ELSE IF InvalidPassword(body.password)
            THEN Reject(d, 400, "Password required (min length 4)")
       ELSE IF exists # 0
            THEN (IF \/ ~Truthy(d.accounts[exists].passwordHash)
                     \/ ~CompareSync(body.password, d.accounts[exists].passwordHash)
                  THEN Reject(d, 400, "Invalid password for existing account")
                  ELSE [data |-> d,
                        res |-> AccountResponse(PublicAccount(d.accounts[exists]))])
       ELSE IF FullNameMissing(body.fullName)
            THEN Reject(d, 400, "Full name required for new accounts")
       ELSE Saved([d EXCEPT !.accounts = Append(@, NewAccount(body))],
                  AccountResponse(PublicAccount(NewAccount(body))))

\* ------------------------------------------------------------- POST /api/order
\* Mutant: the stock test off by one.
NotEnoughStockOffByOne(stock, quantity) == stock + 1 < quantity

\* item.stock < quantity
NotEnoughStock(stock, quantity) == stock < quantity

\* item.stock -= Number(quantity)
Reserve(stock, quantity) == stock - quantity

\* (username && username.toLowerCase() !== 'guest')
IsRegisteredName(username) == Truthy(username) /\ Lower(username) # "guest"

\* order.username
OrderUsername(username) == IF IsRegisteredName(username) THEN username ELSE "guest"

\* Mutant: a cancel token for every order.
TokenForEveryOrder(orderUsername) == TRUE

\* !order.username || order.username.toLowerCase() === 'guest'
\* Mutant: a cancel token for every order but the administrator's.
TokenUnlessAdmin(orderUsername) == Lower(orderUsername) # "admin"

GetsCancelToken(orderUsername) ==
    ~Truthy(orderUsername) \/ Lower(orderUsername) = "guest"

\* +(item.price * quantity).toFixed(2), prices and amounts in cents
Amount(price, quantity) == price * quantity

BuyerName(d, username, buyerFullName) ==
    IF IsRegisteredName(username)
    THEN LET a == FindAccount(d.accounts, username)
         IN IF a # 0
            THEN (IF Truthy(d.accounts[a].fullName) THEN d.accounts[a].fullName
                  ELSE d.accounts[a].username)
            ELSE username
    ELSE Trim(buyerFullName)

\* Mutant: a guest purchase that needs no full name.
GuestNameOptional(username, buyerFullName) == FALSE

GuestNameMissing(username, buyerFullName) ==
    /\ ~IsRegisteredName(username)
    /\ (~Truthy(buyerFullName) \/ StrLen(Trim(buyerFullName)) < 2)

NewOrder(d, item, username, buyerFullName, quantity, token) ==
    [id |-> nextId(d.orders),
     itemId |-> item.id,
     itemName |-> item.name,
     username |-> OrderUsername(username),
     buyerName |-> BuyerName(d, username, buyerFullName),
     quantity |-> quantity,
     amount |-> Amount(item.price, quantity),
     status |-> "processing",
     arrivalDate |-> Null,
     cancelToken |-> IF GetsCancelToken(OrderUsername(username)) THEN token
                     ELSE Undefined,
     canceledAt |-> Undefined]

\* token: the value generateCancelToken() draws, used for a guest order only.
PostOrder(d, body, token) ==
    LET username == Default(body.username, "guest")
        quantity == DefaultNum(body.quantity, 1)
        i == FindActiveItem(d.items, body.itemId)
    IN IF body.itemId = 0 THEN Reject(d, 400, "No itemId provided")
       ELSE IF i = 0 THEN Reject(d, 400, "Item not found")
       ELSE IF NotEnoughStock(d.items[i].stock, quantity)
            THEN Reject(d, 400, "Not enough stock")
       ELSE IF GuestNameMissing(username, body.buyerFullName)
            THEN Reject(d, 400, "Full name required for guest purchases")
       ELSE LET order == NewOrder(d, d.items[i], username, body.buyerFullName,
                                  quantity, token)
            IN Saved([d EXCEPT !.items[i].stock = Reserve(@, quantity),
                               !.orders = Append(@, order)],
                     OrderResponse(order))

\* ------------------------------------------------------------- POST /api/cancel-order
checkAdminCredentials(d, username, password) ==
    IF ~Truthy(username) \/ ~Truthy(password) THEN FALSE
    ELSE IF Lower(username) # "admin" THEN FALSE
    ELSE LET a == FindAdmin(d.accounts)
         IN IF a = 0 \/ ~Truthy(d.accounts[a].passwordHash) THEN FALSE
            ELSE CompareSync(password, d.accounts[a].passwordHash)

\* Mutant: an admin branch that compares the name as typed.
AdminBranchCaseSensitive(d, username, password) ==
    /\ Truthy(username) /\ Truthy(password)
    /\ username = "admin"
    /\ checkAdminCredentials(d, username, password)

\* username && password && username.toLowerCase() === 'admin' && checkAdminCredentials(...)
AdminBranch(d, username, password) ==
    /\ Truthy(username) /\ Truthy(password)
    /\ Lower(username) = "admin"
    /\ checkAdminCredentials(d, username, password)

\* Mutant: the owner branch without its guest exclusion.
OwnerBranchForGuest(username, ord) ==
    /\ Truthy(username) /\ Truthy(ord.username)
    /\ Lower(username) = Lower(ord.username)

\* Mutant: an owner branch that compares the names as typed.
OwnerBranchCaseSensitive(username, ord) ==
    /\ Truthy(username) /\ Truthy(ord.username)
    /\ Lower(ord.username) # "guest"
    /\ username = ord.username

OwnerBranch(username, ord) ==
    /\ Truthy(username) /\ Truthy(ord.username)
    /\ Lower(ord.username) # "guest"
    /\ Lower(username) = Lower(ord.username)

\* Mutant: any supplied token opens a guest order.
TokenBranchAnyToken(cancelToken, ord) ==
    /\ Truthy(cancelToken) /\ Truthy(ord.cancelToken)

\* Mutant: a supplied token opens any order.
TokenBranchAnyOrder(cancelToken, ord) == Truthy(cancelToken)

TokenBranch(cancelToken, ord) ==
    /\ Truthy(cancelToken) /\ Truthy(ord.cancelToken)
    /\ cancelToken = ord.cancelToken

authorized(d, username, password, cancelToken, ord) ==
    \/ AdminBranch(d, username, password)
    \/ OwnerBranch(username, ord)
    \/ TokenBranch(cancelToken, ord)

\* Mutant: a cancellation that gives nothing back.
RestoreNothing(stock, quantity) == stock

\* item.stock = Number(item.stock || 0) + Number(ord.quantity || 0)
Restore(stock, quantity) == stock + quantity

\* Mutant: a cancellation that also removes the order's token.
CanceledWithoutToken(ord) ==
    [ord EXCEPT !.status = "canceled", !.canceledAt = Now,
                !.cancelToken = Undefined]

\* Mutant: a cancellation that stamps the order and leaves its status.
CanceledAtOnly(ord) == [ord EXCEPT !.canceledAt = Now]

\* Mutant: a cancellation without its time stamp.
CanceledUnstamped(ord) == [ord EXCEPT !.status = "canceled"]

\* ord.status = 'canceled'; ord.canceledAt = new Date().toISOString()
Canceled(ord) == [ord EXCEPT !.status = "canceled", !.canceledAt = Now]

PostCancelOrder(d, body) ==
    LET username == Default(body.username, "")
        password == Default(body.password, "")
        o == FindById(d.orders, body.orderId)
    IN IF body.orderId = 0 THEN Reject(d, 400, "orderId required")
       ELSE IF o = 0 THEN Reject(d, 400, "Order not found")
       ELSE IF d.orders[o].status = "canceled"
            THEN Reject(d, 400, "Order already canceled")
       ELSE IF ~authorized(d, username, password, body.cancelToken, d.orders[o])
            THEN Reject(d, 403, "Not authorized to cancel this order")
       ELSE LET i == FindById(d.items, d.orders[o].itemId)
                restored == IF i = 0 THEN d.items
                            ELSE [d.items EXCEPT
                                     ![i].stock = Restore(@, d.orders[o].quantity)]
            IN Saved([d EXCEPT !.items = restored, !.orders[o] = Canceled(@)],
                     OrderResponse(Canceled(d.orders[o])))

\* ------------------------------------------------------------- admin routes
\* Mutant: an admin check that looks at the name only.
checkAdminNameOnly(d, body) == Lower(Default(body.username, "")) = "admin"

\* checkAdmin(req, res): username and password from the body or the query.
checkAdmin(d, body) ==
    checkAdminCredentials(d, Default(body.username, ""), Default(body.password, ""))

AdminRequired(d) == Reject(d, 403, "Admin authentication required (username & password)")

\* Mutant: a delivery added to the stock on hand.
AddStock(item, newStock) == [item EXCEPT !.stock = @ + newStock]

\* item.stock = Number(newStock)
SetStock(item, newStock) == [item EXCEPT !.stock = newStock]

\* POST /api/admin/update-stock
PostUpdateStock(d, body) ==
    LET i == FindById(d.items, body.itemId)
    IN IF ~checkAdmin(d, body) THEN AdminRequired(d)
       ELSE IF i = 0 THEN Reject(d, 400, "Item not found")
       ELSE LET item == SetStock(d.items[i], body.newStock[1])
            IN Saved([d EXCEPT !.items[i] = item], ItemResponse(item))

\* POST /api/admin/create-item: price = 0 and stock = 0 when absent.
NewItem(d, body) ==
    [id |-> nextId(d.items),
     name |-> body.name,
     price |-> DefaultNum(body.price, 0),
     stock |-> DefaultNum(body.stock, 0),
     active |-> TRUE]

PostCreateItem(d, body) ==
    IF ~checkAdmin(d, body) THEN AdminRequired(d)
    ELSE IF ~Truthy(body.name) THEN Reject(d, 400, "Item name required")
    ELSE Saved([d EXCEPT !.items = Append(@, NewItem(d, body))],
               ItemResponse(NewItem(d, body)))

\* ord.status = arrivalDate ? 'scheduled' : 'processing'
ArrivalStatus(arrivalDate) == IF Truthy(arrivalDate) THEN "scheduled" ELSE "processing"

\* Mutant: the arrival date stored as it was sent.
ArrivalValueAsSent(arrivalDate) == arrivalDate

\* ord.arrivalDate = arrivalDate || null
ArrivalValue(arrivalDate) == IF Truthy(arrivalDate) THEN arrivalDate ELSE Null

\* Mutant: an arrival update that also clears the cancellation stamp.
RescheduledAfresh(ord, arrivalDate) ==
    [ord EXCEPT !.arrivalDate = ArrivalValue(arrivalDate),
                !.status = ArrivalStatus(arrivalDate),
                !.canceledAt = Undefined]

\* ord.arrivalDate = ...; ord.status = ...
Rescheduled(ord, arrivalDate) ==
    [ord EXCEPT !.arrivalDate = ArrivalValue(arrivalDate),
                !.status = ArrivalStatus(arrivalDate)]

PostUpdateArrival(d, body) ==
    LET o == FindById(d.orders, body.orderId)
    IN IF ~checkAdmin(d, body) THEN AdminRequired(d)
       ELSE IF o = 0 THEN Reject(d, 400, "Order not found")
       ELSE LET ord == Rescheduled(d.orders[o], body.arrivalDate)
            IN Saved([d EXCEPT !.orders[o] = ord], OrderResponse(ord))

\* Mutant: the cascade without its status test.
CascadeMatchesAnyStatus(o, item) == o.itemId = item.id

\* o.itemId === item.id && o.status !== 'canceled'
CascadeMatches(o, item) == o.itemId = item.id /\ o.status # "canceled"

\* data.orders.forEach(...) of the takedown: the orders from index k on, with
\* the stock and the count accumulated so far.
RECURSIVE Cascade(_, _, _, _, _)
Cascade(ordersArray, k, item, stock, count) ==
    IF k > Len(ordersArray)
    THEN [orders |-> ordersArray, stock |-> stock, canceledCount |-> count]
    ELSE IF CascadeMatches(ordersArray[k], item)
         THEN Cascade([ordersArray EXCEPT ![k] = Canceled(@)], k + 1, item,
                      Restore(stock, ordersArray[k].quantity), count + 1)
         ELSE Cascade(ordersArray, k + 1, item, stock, count)

PostTakedownItem(d, body) ==
    LET i == FindById(d.items, body.itemId)
    IN IF ~checkAdmin(d, body) THEN AdminRequired(d)
       ELSE IF i = 0 THEN Reject(d, 400, "Item not found")
       ELSE LET c == Cascade(d.orders, 1, d.items[i], d.items[i].stock, 0)
            IN Saved([d EXCEPT !.items[i].active = FALSE,
                               !.items[i].stock = c.stock,
                               !.orders = c.orders],
                     TakedownResponse(c.canceledCount))

\* ------------------------------------------------------------- the system
\* The model keeps stock inside a finite window and the numbers of orders and
\* items bounded (not rules of the program).
InWindow(d) ==
    /\ Len(d.orders) <= MaxOrders
    /\ Len(d.items) <= MaxItems
    /\ Len(d.accounts) <= MaxAccounts
    /\ \A i \in DOMAIN d.items : d.items[i].stock \in (0 - MaxStock)..MaxStock

\* saveData(data) and the response; trip is the next value of roundTrip.
Respond(out, trip) ==
    /\ InWindow(out.data)
    /\ accounts' = out.data.accounts
    /\ items' = out.data.items
    /\ orders' = out.data.orders
    /\ res' = out.res
    /\ createdStock' = [k \in DOMAIN out.data.items |->
                           IF k \in DOMAIN createdStock THEN createdStock[k]
                           ELSE out.data.items[k].stock]
    /\ roundTrip' = trip

\* One request answered with no other request in the process.
Serve(out, trip, branches) ==
    /\ Respond(out, trip)
    /\ via' = branches
    /\ UNCHANGED requests

\* A client with no request in the process.
NoRequest == [pc |-> "idle", body |-> <<>>, data |-> <<>>, res |-> <<>>]

InitAccounts ==
    << [username |-> "admin", fullName |-> "", isAdmin |-> TRUE,
        passwordHash |-> Hash(AdminPassword)],
       [username |-> "ann", fullName |-> "Ann Lee", isAdmin |-> FALSE,
        passwordHash |-> Hash("annpw")] >>

Widget ==
    [id |-> 1, name |-> "Widget", price |-> 1000, stock |-> InitStock, active |-> TRUE]
Scarf ==
    [id |-> 2, name |-> "Scarf", price |-> 250, stock |-> InitStock + 2,
     active |-> TRUE]

\* The snapshot data.json holds when the server starts: no orders yet.
InitWith(itemsArray) ==
    /\ accounts = InitAccounts
    /\ items = itemsArray
    /\ orders = <<>>
    /\ res = Error(0, "")
    /\ createdStock = [k \in DOMAIN itemsArray |-> itemsArray[k].stock]
    /\ roundTrip = <<>>
    /\ via = <<>>
    /\ requests = [c \in Clients |-> NoRequest]

Init == InitWith(<<Widget, Scarf>>)

\* generateCancelToken() is called for a guest order only.
TokenDraws(body) ==
    IF GetsCancelToken(OrderUsername(Default(body.username, "guest")))
    THEN Tokens ELSE {Undefined}

\* The stock of the item with this id, as the handler reads it.
StockOf(itemsArray, id) ==
    itemsArray[FindById(itemsArray, id)].stock

Placed(out) ==
    IF out.res.status # 200 THEN <<>>
    ELSE << [orderId |-> out.res.order[1].id,
             itemId |-> out.res.order[1].itemId,
             quantity |-> out.res.order[1].quantity,
             stockBefore |-> StockOf(items, out.res.order[1].itemId),
             canceled |-> FALSE] >>

CanceledRightAfter(out) ==
    IF /\ out.res.status = 200
       /\ roundTrip # <<>>
       /\ ~roundTrip[1].canceled
       /\ out.res.order[1].id = roundTrip[1].orderId
    THEN << [roundTrip[1] EXCEPT !.canceled = TRUE] >>
    ELSE <<>>

PlaceOrderFrom(bodies) ==
    \E body \in bodies : \E token \in TokenDraws(body) :
        LET out == PostOrder(loadData, body, token)
        IN Serve(out, Placed(out), <<>>)

\* The branches of the authorization test (index.js:222-231) that hold for
\* a cancel request that was granted.
Branches(body, out) ==
    IF out.res.status # 200 THEN <<>>
    ELSE LET ord == orders[FindById(orders, body.orderId)]
         IN << [admin |-> AdminBranch(loadData, Default(body.username, ""),
                                      Default(body.password, "")),
                owner |-> OwnerBranch(Default(body.username, ""), ord),
                token |-> TokenBranch(body.cancelToken, ord)] >>

CancelOrderFrom(bodies) ==
    \E body \in bodies :
        LET out == PostCancelOrder(loadData, body)
        IN Serve(out, CanceledRightAfter(out), Branches(body, out))

UpdateArrivalFrom(bodies) ==
    \E body \in bodies : Serve(PostUpdateArrival(loadData, body), <<>>, <<>>)

TakedownItemFrom(bodies) ==
    \E body \in bodies : Serve(PostTakedownItem(loadData, body), <<>>, <<>>)

\* The shop: two items, orders placed, scheduled, canceled and taken down.
ShopOrder == PlaceOrderFrom(ShopOrderBodies)
ShopCancel == CancelOrderFrom(ShopCancelBodies)
UpdateArrival == UpdateArrivalFrom(ShopArrivalBodies)
TakedownItem == TakedownItemFrom(ShopTakedownBodies)

Next == ShopOrder \/ ShopCancel \/ UpdateArrival \/ TakedownItem

Spec == Init /\ [][Next]_vars

\* Orders placed and canceled against one item by every kind of buyer, with
\* no admin route.
PlaceOrder == PlaceOrderFrom(OrderBodies)
CancelOrder == CancelOrderFrom(CancelBodies)

InitReserve == InitWith(<<Widget>>)

NextReserve == PlaceOrder \/ CancelOrder

SpecReserve == InitReserve /\ [][NextReserve]_vars

UpdateStockFrom(bodies) ==
    \E body \in bodies : Serve(PostUpdateStock(loadData, body), <<>>, <<>>)

CreateItemFrom(bodies) ==
    \E body \in bodies : Serve(PostCreateItem(loadData, body), <<>>, <<>>)

\* The back office: every route that saves, on one item and the items the
\* administrator creates.
OfficeOrder == PlaceOrderFrom(OfficeOrderBodies)
OfficeCancel == CancelOrderFrom(OfficeCancelBodies)
UpdateStock == UpdateStockFrom(OfficeStockBodies)
CreateItem == CreateItemFrom(OfficeCreateBodies)

OfficeArrival == UpdateArrivalFrom(OfficeArrivalBodies)
OfficeTakedown == TakedownItemFrom(OfficeTakedownBodies)

NextOffice ==
    \/ OfficeOrder \/ OfficeCancel \/ UpdateStock \/ CreateItem
    \/ OfficeArrival \/ OfficeTakedown

SpecOffice == InitReserve /\ [][NextOffice]_vars

\* Orders under every kind of name and every cancel request.
NamedOrder == PlaceOrderFrom(NamedOrderBodies)

NextCancel == NamedOrder \/ CancelOrder

SpecCancel == InitWith(<<Scarf>>) /\ [][NextCancel]_vars

\* The catalog: visitors list the items and order them while the
\* administrator creates items and takes them down.
ListItems == Serve(GetItems(loadData), <<>>, <<>>)
CatalogOrder == PlaceOrderFrom(ShopOrderBodies)
CatalogCreate == CreateItemFrom(OfficeCreateBodies)
CatalogTakedown == TakedownItemFrom(ShopTakedownBodies)

NextCatalog == ListItems \/ CatalogOrder \/ CatalogCreate \/ CatalogTakedown

SpecCatalog == InitReserve /\ [][NextCatalog]_vars

\* The sign-up desk: a shop whose data.json holds no account yet, and
\* visitors who create accounts and log in.
InitSignup ==
    /\ accounts = <<>>
    /\ items = <<Widget>>
    /\ orders = <<>>
    /\ res = Error(0, "")
    /\ createdStock = <<Widget.stock>>
    /\ roundTrip = <<>>
    /\ via = <<>>
    /\ requests = [c \in Clients |-> NoRequest]

CreateAccount ==
    \E body \in AccountBodies : Serve(PostCreateAccount(loadData, body), <<>>, <<>>)

NextSignup == CreateAccount

SpecSignup == InitSignup /\ [][NextSignup]_vars

\* ------------------------------------------------------------- concurrent orders
\* Mutant: a handler that can be interrupted between its read and its write.
DispatchedAnyTime(c) == TRUE

\* The process runs one handler at a time: the handler of POST /api/order
\* calls readFileSync and writeFileSync and has no await or callback between
\* them, so no other handler starts while one stands between its loadData
\* and its saveData.
Dispatched(c) == \A other \in Clients : requests[other].pc # "loaded"

\* The request of client c reaches the process.
Receive(c) ==
    /\ requests[c].pc = "idle"
    /\ \E body \in RaceOrderBodies :
          requests' = [requests EXCEPT ![c] = [pc |-> "queued", body |-> <<body>>,
                                               data |-> <<>>, res |-> <<>>]]
    /\ UNCHANGED <<accounts, items, orders, res, createdStock, roundTrip, via>>

\* const data = loadData(): the handler of c reads data.json.
Load(c) ==
    /\ requests[c].pc = "queued"
    /\ Dispatched(c)
    /\ requests' = [requests EXCEPT ![c].pc = "loaded", ![c].data = <<loadData>>]
    /\ UNCHANGED <<accounts, items, orders, res, createdStock, roundTrip, via>>

\* The rest of the handler of c on the snapshot it read: an error response,
\* or the order, saveData(data) and the response.
Save(c) ==
    /\ requests[c].pc = "loaded"
    /\ \E token \in TokenDraws(requests[c].body[1]) :
          LET out == PostOrder(requests[c].data[1], requests[c].body[1], token)
              written == IF out.res.status = 200 THEN out.data ELSE loadData
          IN /\ Respond([data |-> written, res |-> out.res], <<>>)
             /\ requests' = [requests EXCEPT ![c].pc = "done",
                                              ![c].res = <<out.res>>]
    /\ via' = <<>>

\* The client has its response and may order again.
Reply(c) ==
    /\ requests[c].pc = "done"
    /\ requests' = [requests EXCEPT ![c] = NoRequest]
    /\ UNCHANGED <<accounts, items, orders, res, createdStock, roundTrip, via>>

NextRace == \E c \in Clients : Receive(c) \/ Load(c) \/ Save(c) \/ Reply(c)

SpecRace == Init /\ [][NextRace]_vars

\* ------------------------------------------------------------- properties
\* The order a request names, as the handlers look it up (0: no such order).
OrderIndex(id) == FindById(orders, id)

\* The orders of an item that hold a reservation: those not canceled.
LiveOrders(ordersArray, id) ==
    {k \in DOMAIN ordersArray :
        ordersArray[k].itemId = id /\ ordersArray[k].status # "canceled"}

RECURSIVE SumQuantity(_, _)
SumQuantity(ordersArray, indexes) ==
    IF indexes = {} THEN 0
    ELSE LET k == CHOOSE x \in indexes : TRUE
         IN ordersArray[k].quantity + SumQuantity(ordersArray, indexes \ {k})

\* C1: after any sequence of placeOrder and cancelOrder requests, whatever
\* quantity they carry, every item's stock is >= 0.
StockNeverNegative == \A i \in DOMAIN items : items[i].stock >= 0

\* C2: without adminUpdateStock, for every item the quantities of its
\* non-canceled orders plus its current stock equal the stock it was created
\* with.
ReservationsMatchStock ==
    \A i \in DOMAIN items :
        SumQuantity(orders, LiveOrders(orders, items[i].id)) + items[i].stock
            = createdStock[i]

\* C3: canceled is terminal: no request changes the status of a canceled
\* order.
CanceledIsTerminal ==
    [][\A k \in DOMAIN orders :
          orders[k].status = "canceled" => orders'[k].status = "canceled"]_vars

\* cancelOrder on a canceled order answers "Order already canceled" and saves
\* nothing, whatever credentials it carries.
AlreadyCanceledRejected ==
    \A body \in CancelBodies :
        (OrderIndex(body.orderId) # 0
         /\ orders[OrderIndex(body.orderId)].status = "canceled")
        => PostCancelOrder(loadData, body)
               = Reject(loadData, 400, "Order already canceled")

\* A step restores order k when it takes it from a live status to canceled
\* (the cancel route and the takedown cascade add its quantity to the stock
\* in that step); canceledAt tells that an earlier step did so already.
RestoredAgain ==
    \E k \in DOMAIN orders :
        /\ orders[k].canceledAt # Undefined
        /\ orders[k].status # "canceled"
        /\ orders'[k].status = "canceled"

\* C4: cancelOrder on a canceled order fails with AlreadyCanceled and changes
\* nothing, so the quantity of one order is restored to stock at most once.
CanceledOrderRestoredOnce ==
    []AlreadyCanceledRejected /\ [][~RestoredAgain]_vars

\* C5: a successful placeOrder of a quantity q, 1 <= q <= stock, right
\* followed by an authorized cancelOrder of the order it created, leaves the
\* item's stock as it was before the order.
PlaceThenCancelRestoresStock ==
    (/\ roundTrip # <<>>
     /\ roundTrip[1].canceled
     /\ 1 <= roundTrip[1].quantity
     /\ roundTrip[1].quantity <= roundTrip[1].stockBefore)
    => StockOf(items, roundTrip[1].itemId) = roundTrip[1].stockBefore

PlacedThenCanceled ==
    /\ roundTrip # <<>>
    /\ roundTrip[1].canceled
    /\ 1 <= roundTrip[1].quantity
    /\ roundTrip[1].quantity <= roundTrip[1].stockBefore
    /\ res.status = 200
    /\ res.order[1].id = roundTrip[1].orderId
    /\ res.order[1].status = "canceled"

\* The scenario of the specification: an item with 5 in stock and two orders
\* of 3, one after the other.
TwoOrdersOfThree ==
    LET d == [accounts |-> InitAccounts,
              items |-> << [Widget EXCEPT !.stock = 5] >>,
              orders |-> <<>>]
        body == [username |-> Undefined, buyerFullName |-> " Ann Lee ",
                 itemId |-> 1, quantity |-> <<3>>]
        first == PostOrder(d, body, "t1")
        second == PostOrder(first.data, body, "t2")
    IN /\ first.res.status = 200
       /\ first.data.items[1].stock = 2
       /\ second = Reject(first.data, 400, "Not enough stock")
       /\ second.data.items[1].stock = 2
       /\ Len(second.data.orders) = 1

\* C6: placeOrder of a quantity greater than the item's stock answers "Not
\* enough stock", creates no order and leaves the stock as it is; with 5 in
\* stock the first of two orders of 3 succeeds and the second fails, stock 2.
InsufficientStockRejected ==
    /\ \A body \in OrderBodies, token \in Tokens :
          LET i == FindActiveItem(items, body.itemId)
          IN (i # 0 /\ DefaultNum(body.quantity, 1) > items[i].stock)
             => PostOrder(loadData, body, token)
                    = Reject(loadData, 400, "Not enough stock")
    /\ TwoOrdersOfThree

SecondOrderRejected ==
    /\ res = Error(400, "Not enough stock")
    /\ Len(orders) = 1
    /\ orders[1].quantity >= 1
    /\ orders[1].status = "processing"
    /\ StockOf(items, orders[1].itemId) < orders[1].quantity

\* C7: adminTakedownItem adds to the item's stock exactly the quantities of
\* its non-canceled orders, cancels exactly those, reports their number, and
\* leaves its canceled orders and the orders of other items as they are.
TakedownCancelsLiveOrders ==
    \A body \in TakedownBodies :
        LET out == PostTakedownItem(loadData, body)
            i == FindById(items, body.itemId)
        IN out.res.status = 200 =>
           LET live == LiveOrders(orders, items[i].id)
           IN /\ out.data.items[i].stock
                     = items[i].stock + SumQuantity(orders, live)
              /\ out.res.canceledOrders = Cardinality(live)
              /\ DOMAIN out.data.orders = DOMAIN orders
              /\ \A k \in DOMAIN orders :
                     IF k \in live
                     THEN out.data.orders[k].status = "canceled"
                     ELSE out.data.orders[k] = orders[k]

TwoOrdersTakenDown ==
    /\ res.canceledOrders = 2
    /\ \E i \in DOMAIN items :
          /\ items[i].active = FALSE
          /\ \A k \in DOMAIN orders :
                 orders[k].itemId = items[i].id /\ orders[k].status = "canceled"
          /\ items[i].stock = createdStock[i]

\* The three permit conditions of a cancel request, in the words of the
\* specification.
Principal(body) == Default(body.username, "")
Secret(body) == Default(body.password, "")

AdminVerified(body) ==
    /\ Lower(Principal(body)) = "admin"
    /\ \E a \in DOMAIN accounts :
          /\ Lower(accounts[a].username) = "admin"
          /\ CompareSync(Secret(body), accounts[a].passwordHash)

OwnerMatches(body, ord) ==
    /\ ord.username # "guest"
    /\ Lower(Principal(body)) = Lower(ord.username)

TokenMatches(body, ord) ==
    /\ body.cancelToken \notin {Undefined, ""}
    /\ body.cancelToken = ord.cancelToken

NotAuthorized == Error(403, "Not authorized to cancel this order")

\* C8: cancelOrder on an existing non-canceled order succeeds only for a
\* verified admin, for the order's non-guest owner, or with the order's exact
\* cancelToken; otherwise it fails with NotAuthorized.
CancelNeedsPermit ==
    \A body \in CancelBodies :
        LET o == OrderIndex(body.orderId)
            out == PostCancelOrder(loadData, body)
        IN (o # 0 /\ orders[o].status # "canceled") =>
           LET permitted == \/ AdminVerified(body)
                            \/ OwnerMatches(body, orders[o])
                            \/ TokenMatches(body, orders[o])
           IN /\ out.res.status = 200 => permitted
              /\ ~permitted => out.res = NotAuthorized /\ out.data = loadData

CancelDenied ==
    /\ res = NotAuthorized
    /\ \E k \in DOMAIN orders : orders[k].status # "canceled"

\* A cancel request that carries a token other than the order's, no admin
\* credentials and no owner name.
WrongToken(body, ord) ==
    /\ Truthy(body.cancelToken)
    /\ body.cancelToken # ord.cancelToken
    /\ ~AdminVerified(body)
    /\ ~OwnerMatches(body, ord)

\* C9: cancelOrder with a token that differs from the order's cancelToken,
\* without admin credentials or owner name, fails with NotAuthorized and
\* leaves the order's status and the item's stock as they are.
WrongTokenRejected ==
    \A body \in CancelBodies :
        LET o == OrderIndex(body.orderId)
            out == PostCancelOrder(loadData, body)
        IN (o # 0 /\ orders[o].status # "canceled" /\ WrongToken(body, orders[o]))
           => /\ out.res = NotAuthorized
              /\ out.data.orders[o].status = orders[o].status
              /\ out.data.items = items

WrongTokenDenied ==
    /\ res = NotAuthorized
    /\ \E body \in CancelBodies :
          LET o == OrderIndex(body.orderId)
          IN /\ o # 0
             /\ orders[o].status = "processing"
             /\ orders[o].username = "guest"
             /\ body.cancelToken \in Tokens
             /\ WrongToken(body, orders[o])
             /\ PostCancelOrder(loadData, body).res = res

\* C10: an order has a cancelToken if and only if its username is guest.
CancelTokenIffGuest ==
    \A k \in DOMAIN orders :
        /\ orders[k].cancelToken # Undefined <=> orders[k].username = "guest"
        /\ orders[k].username = "guest" => orders[k].cancelToken \in Tokens

GuestAndAccountOrders ==
    /\ \E k \in DOMAIN orders :
          orders[k].username = "guest" /\ orders[k].cancelToken \in Tokens
    /\ \E k \in DOMAIN orders :
          orders[k].username = "ann" /\ orders[k].cancelToken = Undefined

ItemNotFound == Error(400, "Item not found")

\* placeOrder for an item that was taken down answers "Item not found" and
\* saves nothing, whoever orders and whatever the quantity.
InactiveItemRefusesOrders ==
    \A i \in DOMAIN items :
        items[i].active = FALSE =>
            \A body \in OrderBodies, token \in Tokens :
                body.itemId = items[i].id
                => PostOrder(loadData, body, token) = [data |-> loadData,
                                                       res |-> ItemNotFound]

\* No step gives an item its active flag back.
StaysInactive ==
    \A i \in DOMAIN items :
        items[i].active = FALSE => (i \in DOMAIN items' /\ items'[i].active = FALSE)

\* C11: deactivation is terminal and blocks new orders: no operation sets the
\* active flag of an inactive item back to true, and every placeOrder for an
\* inactive item fails with ItemNotFound, creating no order and leaving the
\* stock as it is.
DeactivationIsTerminal ==
    []InactiveItemRefusesOrders /\ [][StaysInactive]_vars

\* With the Widget taken down and the Hat on sale, "Item not found" can only
\* answer an order for the Widget: every other request of the back office
\* names an item that exists.
OrderAfterTakedownRefused ==
    /\ res = ItemNotFound
    /\ Len(items) = 2
    /\ items[1].active = FALSE
    /\ items[2].active = TRUE
    /\ \E k \in DOMAIN orders : orders[k].itemId = items[1].id

\* C12: placeOrder with a quantity below 1 is rejected and creates no order,
\* so no response carries an order, and no stored order has, a quantity
\* below 1.
InvalidQuantityRejected ==
    /\ res.order # NoOrder => res.order[1].quantity >= 1
    /\ \A k \in DOMAIN orders : orders[k].quantity >= 1

\* An outcome that is an error leaves on disk the snapshot d it loaded.
FailsClosed(out, d) == out.res.status # 200 => out.data = d

\* C13: fail closed: a request that is answered with an error (placeOrder,
\* cancelOrder, adminUpdateStock, adminSetArrival, adminCreateItem,
\* adminTakedownItem) leaves accounts, items and orders on disk exactly as
\* they were.
ErrorsSaveNothing ==
    /\ \A body \in OrderBodies, token \in Tokens :
          FailsClosed(PostOrder(loadData, body, token), loadData)
    /\ \A body \in CancelBodies :
          FailsClosed(PostCancelOrder(loadData, body), loadData)
    /\ \A body \in StockBodies :
          FailsClosed(PostUpdateStock(loadData, body), loadData)
    /\ \A body \in ArrivalBodies :
          FailsClosed(PostUpdateArrival(loadData, body), loadData)
    /\ \A body \in CreateBodies :
          FailsClosed(PostCreateItem(loadData, body), loadData)
    /\ \A body \in TakedownBodies :
          FailsClosed(PostTakedownItem(loadData, body), loadData)

ErrorAnswered ==
    /\ res.status \in {400, 403}
    /\ \E k \in DOMAIN orders : orders[k].status = "canceled"
    /\ \E i \in DOMAIN items : items[i].active = FALSE

\* An admin route answers a request that is not from a verified admin with
\* 403 and saves nothing.
AdminOnly(out, body) == ~AdminVerified(body) => out = AdminRequired(loadData)

AdminStockNeverNegative ==
    /\ res.status = 200 /\ "item" \in DOMAIN res => res.item.stock >= 0
    /\ \A i \in DOMAIN items : items[i].stock >= 0

StatusTransitions ==
    { <<"processing", "scheduled">>, <<"scheduled", "processing">>,
      <<"processing", "canceled">>, <<"scheduled", "canceled">> }

\* C17: the order status follows the state machine: a new order starts in
\* processing, a status is one of processing, scheduled and canceled, and a
\* step changes a status only along processing -> scheduled, scheduled ->
\* processing, processing -> canceled and scheduled -> canceled.
StatusFollowsStateMachine ==
    [][/\ \A k \in DOMAIN orders' :
             /\ orders'[k].status \in {"processing", "scheduled", "canceled"}
             /\ k \notin DOMAIN orders => orders'[k].status = "processing"
       /\ \A k \in DOMAIN orders :
             orders'[k].status # orders[k].status
             => <<orders[k].status, orders'[k].status>> \in StatusTransitions]_vars

\* The outcome of a cancel request that is granted on order o: the order is
\* canceled, its quantity is back in the stock of its item if the item
\* exists, and nothing else changed.
CancelGranted(out, o) ==
    LET i == FindById(items, orders[o].itemId)
    IN /\ out.res.status = 200
       /\ out.res.order[1].id = orders[o].id
       /\ out.data.orders[o].status = "canceled"
       /\ \A k \in DOMAIN orders : k # o => out.data.orders[k] = orders[k]
       /\ \A j \in DOMAIN items :
             out.data.items[j] =
                 IF j = i THEN [items[j] EXCEPT !.stock = @ + orders[o].quantity]
                 ELSE items[j]

\* C18: admin override: a cancelOrder request whose principal normalizes to
\* admin and whose secret verifies succeeds on any existing non-canceled
\* order, whoever placed it, restores its quantity and sets status canceled.
AdminCancelsAnyOrder ==
    \A body \in CancelBodies :
        LET o == OrderIndex(body.orderId)
        IN (o # 0 /\ orders[o].status # "canceled" /\ AdminVerified(body))
           => CancelGranted(PostCancelOrder(loadData, body), o)

\* The administrator canceled a guest's order without its token.
AdminCanceledGuestOrder ==
    /\ via # <<>>
    /\ via[1].admin /\ ~via[1].owner /\ ~via[1].token
    /\ res.order[1].username = "guest"
    /\ res.order[1].status = "canceled"
    /\ \E k \in DOMAIN orders :
          orders[k].username = "ann" /\ orders[k].id # res.order[1].id

\* C19: owner self-service without secret: on an order whose username is a
\* non-guest name, a cancelOrder request that supplies the same name in any
\* case is granted with no secret and no token, also when the secret it
\* supplies is wrong and when the name is admin.
OwnerCancelsWithoutSecret ==
    \A body \in CancelBodies :
        LET o == OrderIndex(body.orderId)
        IN (/\ o # 0
            /\ orders[o].status # "canceled"
            /\ orders[o].username # "guest"
            /\ Lower(Principal(body)) = Lower(orders[o].username))
           => CancelGranted(PostCancelOrder(loadData, body), o)

\* An order placed under the name Admin was canceled by a request that named
\* admin and did not pass the admin check.
AdminNamedOrderCanceledWithoutSecret ==
    /\ via # <<>>
    /\ via[1].owner /\ ~via[1].admin /\ ~via[1].token
    /\ res.order[1].username = "Admin"
    /\ res.order[1].status = "canceled"

\* C20: once an order is created, no later operation changes its amount,
\* quantity, itemId, itemName, username or cancelToken: a step changes nothing
\* of a stored order but its status, arrivalDate and canceledAt.
OrderFieldsImmutable ==
    [][\A k \in DOMAIN orders :
          /\ k \in DOMAIN orders'
          /\ [orders'[k] EXCEPT !.status = orders[k].status,
                                !.arrivalDate = orders[k].arrivalDate,
                                !.canceledAt = orders[k].canceledAt] = orders[k]]_vars

\* A guest's order that was scheduled and then canceled, with a second order
\* placed after it, and the Widget taken down with more stock than it was
\* created with.
OrderWentThroughEveryRoute ==
    /\ Len(orders) = 2
    /\ orders[1].cancelToken \in Tokens
    /\ orders[1].arrivalDate = ArrivalDay
    /\ orders[1].status = "canceled"
    /\ items[1].active = FALSE
    /\ items[1].stock > createdStock[1]

\* A request by a guest or with no principal, and a full name of at least 2
\* characters once trimmed.
GuestPrincipal(body) ==
    body.username \in {Undefined, ""} \/ Lower(body.username) = "guest"
HasFullName(body) ==
    body.buyerFullName \notin {Undefined, ""}
    /\ StrLen(Trim(body.buyerFullName)) >= 2

FullNameRequired == Error(400, "Full name required for guest purchases")

\* C21: placeOrder by a guest or absent principal without a full name of at
\* least 2 trimmed characters is rejected, creates no order and leaves the
\* stock as it is (with "Full name required" when the item is on sale and in
\* stock); when it succeeds the order's username is guest and its buyerName
\* is the trimmed full name.
GuestNeedsFullName ==
    \A body \in OrderBodies, token \in Tokens :
        GuestPrincipal(body) =>
            LET out == PostOrder(loadData, body, token)
                i == FindActiveItem(items, body.itemId)
            IN /\ ~HasFullName(body) =>
                     /\ out.res.status # 200
                     /\ out.data = loadData
                     /\ (i # 0 /\ items[i].stock >= DefaultNum(body.quantity, 1))
                        => out.res = FullNameRequired
               /\ out.res.status = 200 =>
                     /\ HasFullName(body)
                     /\ out.res.order[1].username = "guest"
                     /\ out.res.order[1].buyerName = Trim(body.buyerFullName)
                     /\ out.data.orders = Append(orders, out.res.order[1])

\* A guest purchase without a usable name was refused after one with a full
\* name was stored under its trimmed name.
GuestWithoutNameRefused ==
    /\ res = FullNameRequired
    /\ \E k \in DOMAIN orders :
          orders[k].username = "guest" /\ orders[k].buyerName = "Ann Lee"

\* The ids of an array are positive integers, no two the same.
DistinctPositiveIds(array) ==
    /\ \A k \in DOMAIN array : array[k].id \in Nat \ {0}
    /\ \A k, l \in DOMAIN array : array[k].id = array[l].id => k = l

\* C22: the orders have pairwise distinct positive integer ids, and so have
\* the items, after any sequence of placeOrder and adminCreateItem (and of
\* the other routes).
IdsDistinctAndPositive ==
    DistinctPositiveIds(orders) /\ DistinctPositiveIds(items)

\* Both arrays have grown by an entry with a new id.
SecondOrderAndSecondItem ==
    /\ Len(orders) = 2 /\ orders[2].id = 2
    /\ Len(items) = 2 /\ items[2].id = 2 /\ items[2].name = "Hat"

\* The listing holds the items whose active flag is not false, each once, in
\* the order of data.items, and nothing else.
ListingExact ==
    LET list == GetItems(loadData).res.listed
        shown == {k \in DOMAIN items : items[k].active # FALSE}
    IN /\ GetItems(loadData).data = loadData
       /\ \A k \in DOMAIN items : k \in shown <=> \E j \in DOMAIN list : list[j] = items[k]
       /\ \A j \in DOMAIN list : \E k \in shown : list[j] = items[k]
       /\ \A j, l \in DOMAIN list : j < l => FindById(items, list[j].id) < FindById(items, list[l].id)
       /\ Len(list) = Cardinality(shown)

\* The ids a listing of this snapshot shows.
ListedIds(d) ==
    LET list == GetItems(d).res.listed IN {list[j].id : j \in DOMAIN list}

\* An item the listing has lost is in no later listing.
UnlistedForGood ==
    \A k \in DOMAIN items :
        items[k].id \notin ListedIds(loadData) =>
            /\ k \in DOMAIN items' /\ items'[k].id = items[k].id
            /\ items[k].id \notin ListedIds([accounts |-> accounts', items |-> items',
                                              orders |-> orders'])

\* C23: listActiveItems returns exactly the items whose active flag is not
\* false; after a successful adminTakedownItem(i), item i is absent from
\* listActiveItems in every later state.
ActiveItemsListed ==
    /\ []ListingExact
    /\ []("listed" \in DOMAIN res => \A j \in DOMAIN res.listed : res.listed[j].active # FALSE)
    /\ [][UnlistedForGood]_vars

\* The Widget was taken down and a listing answered with the other item.
ListingWithoutTakenDownItem ==
    /\ "listed" \in DOMAIN res
    /\ Len(items) = 2 /\ items[1].active = FALSE /\ items[2].active
    /\ res.listed = <<items[2]>>

\* How many of the three permit conditions hold for a request and an order.
PermitCount(body, ord) ==
    (IF AdminVerified(body) THEN 1 ELSE 0)
    + (IF OwnerMatches(body, ord) THEN 1 ELSE 0)
    + (IF TokenMatches(body, ord) THEN 1 ELSE 0)

\* Requests of the verified administrator that also carry a token.
AdminTokenBodies ==
    [orderId : OrderIds, username : {"Admin"}, password : {AdminPassword},
     cancelToken : Tokens]

\* C24 as stated: the three cancellation permit conditions (verified admin,
\* owner name match on a non-guest order, matching guest token) are mutually
\* exclusive: for every cancel request and every reachable order at most
\* one of them holds.
PermitConditionsExclusive ==
    \A body \in CancelBodies, o \in DOMAIN orders :
        PermitCount(body, orders[o]) <= 1

\* C24, corrected: the owner condition and the token condition exclude each
\* other; the verified-admin condition holds together with either of them
\* (an order placed under the administrator's name, an administrator's
\* request that carries the order's token); a request for a live order is
\* granted exactly when at least one of the three holds.
OwnerAndTokenExclusive ==
    \A body \in CancelBodies \cup AdminTokenBodies, o \in DOMAIN orders :
        LET ord == orders[o]
            out == PostCancelOrder(loadData, body)
        IN /\ ~(OwnerMatches(body, ord) /\ TokenMatches(body, ord))
           /\ PermitCount(body, ord) = 2 => AdminVerified(body)
           /\ (body.orderId = ord.id /\ ord.status # "canceled") =>
                 /\ PermitCount(body, ord) >= 1 => CancelGranted(out, o)
                 /\ PermitCount(body, ord) = 0 =>
                        out = [data |-> loadData, res |-> NotAuthorized]

\* The administrator canceled an order placed under the administrator's
\* name: the admin branch and the owner branch both held.
AdminCanceledOwnOrder ==
    /\ via # <<>> /\ via[1].admin /\ via[1].owner /\ ~via[1].token
    /\ res.status = 200 /\ res.order[1].username = "Admin"
    /\ \E k \in DOMAIN orders : orders[k].cancelToken # Undefined

\* C25: every order's username is guest or, case-insensitively, the username
\* of an existing account: placeOrder never records an order under a
\* non-guest principal that is not a known account.
OrdersBelongToAccounts ==
    \A k \in DOMAIN orders :
        \/ orders[k].username = "guest"
        \/ \E a \in DOMAIN accounts :
              Lower(accounts[a].username) = Lower(orders[k].username)

\* C26: cancel-token uniqueness: in every reachable state no two orders carry
\* the same cancelToken; token generation at order creation rejects or
\* resamples a token that collides with an existing order's token.
CancelTokensUnique ==
    \A k, l \in DOMAIN orders :
        (k # l /\ orders[k].cancelToken # Undefined)
        => orders[k].cancelToken # orders[l].cancelToken

\* C27: adminTakedownItem is idempotent: applied a second time to the same
\* item with nothing in between it succeeds, cancels zero orders and leaves
\* the stock, the active flag and every order as the first application left
\* them; for an unknown item id it fails with ItemNotFound and changes
\* nothing.
TakedownIdempotent ==
    \A body \in TakedownBodies :
        LET once == PostTakedownItem(loadData, body)
            twice == PostTakedownItem(once.data, body)
        IN /\ once.res.status = 200 =>
                 /\ twice.res = TakedownResponse(0)
                 /\ twice.data = once.data
           /\ (AdminVerified(body) /\ \A k \in DOMAIN items : items[k].id # body.itemId)
              => once = [data |-> loadData, res |-> ItemNotFound]

\* A takedown canceled the second order, and a later takedown of the same
\* item answered with zero canceled orders.
SecondTakedownCanceledNothing ==
    /\ res = TakedownResponse(0)
    /\ items[1].active = FALSE
    /\ Len(orders) = 2 /\ orders[2].itemId = 1 /\ orders[2].status = "canceled"

\* C28: a successful adminUpdateStock sets that item's stock to exactly
\* newStock, whatever the stock was and whatever reservations exist, and
\* leaves all orders, all other items and the item's active flag unchanged.
UpdateStockSetsStockOnly ==
    \A body \in StockBodies :
        LET out == PostUpdateStock(loadData, body)
        IN out.res.status = 200 =>
              /\ AdminVerified(body)
              /\ out.data.orders = orders
              /\ out.data.accounts = accounts
              /\ DOMAIN out.data.items = DOMAIN items
              /\ \A k \in DOMAIN items :
                    IF items[k].id = body.itemId
                    THEN /\ out.data.items[k].stock = body.newStock[1]
                         /\ out.data.items[k].active = items[k].active
                         /\ out.data.items[k].id = items[k].id
                         /\ out.data.items[k].name = items[k].name
                         /\ out.data.items[k].price = items[k].price
                         /\ out.res.item = out.data.items[k]
                    ELSE out.data.items[k] = items[k]

\* The stock of the Widget was set to 2 while an order held a Widget, with a
\* second item in the shop.
StockSetOverReservation ==
    /\ "item" \in DOMAIN res /\ res.item.id = 1 /\ res.item.stock = 2
    /\ items[1] = res.item /\ Len(items) = 2
    /\ Len(orders) = 1 /\ orders[1].itemId = 1 /\ orders[1].status = "processing"

\* The accounts whose username is the request's, ignoring case.
Namesakes(body) ==
    {a \in DOMAIN accounts : Lower(accounts[a].username) = Lower(body.username)}

\* C29: account usernames stay unique case-insensitively: a signup whose
\* username matches an existing account ignoring case never adds a second
\* account (it authenticates against the existing one or fails), and a
\* newly created account has isAdmin true if and only if its username
\* normalizes to admin.
UsernamesUniqueIgnoringCase ==
    /\ \A a, b \in DOMAIN accounts :
          Lower(accounts[a].username) = Lower(accounts[b].username) => a = b
    /\ \A a \in DOMAIN accounts :
          accounts[a].isAdmin <=> Lower(accounts[a].username) = "admin"
    /\ \A body \in AccountBodies :
          LET out == PostCreateAccount(loadData, body)
          IN /\ (body.username # Undefined /\ Namesakes(body) # {}) =>
                   /\ out.data = loadData
                   /\ out.res.status = 200 =>
                         \E a \in Namesakes(body) :
                             /\ accounts[a].passwordHash = Hash(body.password)
                             /\ out.res.account.username = accounts[a].username
                             /\ out.res.account.isAdmin = accounts[a].isAdmin
             /\ out.data # loadData =>
                   /\ out.res.status = 200
                   /\ Len(out.data.accounts) = Len(accounts) + 1
                   /\ \A a \in DOMAIN accounts : out.data.accounts[a] = accounts[a]
                   /\ out.data.accounts[Len(accounts) + 1].username = body.username
                   /\ out.data.accounts[Len(accounts) + 1].isAdmin
                         <=> Lower(body.username) = "admin"
                   /\ out.data.items = items /\ out.data.orders = orders

\* An administrator's account and an ordinary one were created, and a signup
\* under the name of one of them with another password was refused.
SignupUnderTakenNameRefused ==
    /\ res = Error(400, "Invalid password for existing account")
    /\ \E a \in DOMAIN accounts : accounts[a].username = "Admin" /\ accounts[a].isAdmin
    /\ \E a \in DOMAIN accounts : accounts[a].username = "ann" /\ ~accounts[a].isAdmin

\* C30: every order that references an inactive item has status canceled: no
\* live (processing or scheduled) order on an inactive item exists or
\* reappears.
NoLiveOrderOnInactiveItem ==
    \A k \in DOMAIN orders, i \in DOMAIN items :
        (items[i].id = orders[k].itemId /\ items[i].active = FALSE)
        => orders[k].status = "canceled"

\* Requests under the principal name guest, with and without a secret.
GuestNameBodies ==
    [orderId : OrderIds, username : {"Guest", "guest"},
     password : {Undefined, "wrong", AdminPassword}, cancelToken : {Undefined, "t1"}]

\* C31: a guest order can be canceled only through verified admin
\* credentials or its exact cancelToken: the principal name guest, in any
\* letter case, with or without a secret, never authorizes the cancellation
\* of an order whose username is guest, and a supplied token never
\* authorizes the cancellation of a non-guest order.
GuestOrderNeedsAdminOrToken ==
    \A body \in CancelBodies \cup GuestNameBodies, o \in DOMAIN orders :
        LET ord == orders[o]
            out == PostCancelOrder(loadData, body)
            refused == out = [data |-> loadData, res |-> NotAuthorized]
        IN (body.orderId = ord.id /\ ord.status # "canceled") =>
              /\ (ord.username = "guest" /\ out.res.status = 200)
                 => (AdminVerified(body) \/ TokenMatches(body, ord))
              /\ (ord.username = "guest" /\ Lower(Principal(body)) = "guest"
                    /\ ~TokenMatches(body, ord))
                 => refused
              /\ (ord.username # "guest" /\ ~AdminVerified(body)
                    /\ ~OwnerMatches(body, ord))
                 => refused
              /\ ord.username # "guest" => ord.cancelToken = Undefined

\* A cancel request was refused while a guest order with its token and an
\* account's order without one were both live.
RefusedWithGuestAndAccountOrders ==
    /\ res = NotAuthorized
    /\ Len(orders) = 2
    /\ orders[1].username = "guest" /\ orders[1].cancelToken = "t1"
    /\ orders[1].status = "processing"
    /\ orders[2].username = "ann" /\ orders[2].status = "processing"

\* C32: in every reachable state, for every order whose status is not
\* canceled, status is scheduled if and only if arrivalDate is non-null, and
\* processing if and only if arrivalDate is null.
ScheduledIffArrivalDate ==
    \A k \in DOMAIN orders :
        orders[k].status # "canceled" =>
            /\ orders[k].status \in {"processing", "scheduled"}
            /\ orders[k].status = "scheduled" <=> orders[k].arrivalDate # Null
            /\ orders[k].status = "processing" <=> orders[k].arrivalDate = Null

\* One order has an arrival date and is scheduled; the date of another was
\* cleared by the administrator and it is processing.
ScheduledAndUnscheduledOrders ==
    /\ Len(orders) = 2
    /\ orders[1].status = "scheduled" /\ orders[1].arrivalDate = ArrivalDay
    /\ orders[2].status = "processing" /\ orders[2].arrivalDate = Null
    /\ res = OrderResponse(orders[2])
    /\ roundTrip = <<>>

\* Every canceled order has its canceledAt.
CanceledOrdersStamped ==
    \A k \in DOMAIN orders :
        orders[k].status = "canceled" => orders[k].canceledAt # Undefined

\* An order gets its canceledAt only in a step that cancels it: a new order
\* has none, and an order without one keeps it so unless the step moves it
\* from a live status to canceled.
StampedOnlyByCancel ==
    \A k \in DOMAIN orders' :
        orders'[k].canceledAt # Undefined =>
            /\ k \in DOMAIN orders
            /\ \/ orders[k].canceledAt # Undefined
               \/ (orders[k].status # "canceled" /\ orders'[k].status = "canceled")

\* C33: in every reachable state every order whose status is canceled has
\* canceledAt set, and an order that has never been canceled (by cancelOrder
\* or by a takedown cascade) has no canceledAt.
CanceledAtIffEverCanceled ==
    /\ orders = <<>>
    /\ []CanceledOrdersStamped
    /\ [][StampedOnlyByCancel]_vars

\* The first order was canceled and carries its time stamp; the second was
\* never canceled and carries none.
StampedAndUnstampedOrders ==
    /\ Len(orders) = 2
    /\ orders[1].status = "canceled" /\ orders[1].canceledAt = Now
    /\ orders[2].status # "canceled" /\ orders[2].canceledAt = Undefined

\* Two orders that differ at most in arrivalDate and status.
SameButArrival(before, after) ==
    /\ after.id = before.id
    /\ after.itemId = before.itemId /\ after.itemName = before.itemName
    /\ after.username = before.username /\ after.buyerName = before.buyerName
    /\ after.quantity = before.quantity /\ after.amount = before.amount
    /\ after.cancelToken = before.cancelToken
    /\ after.canceledAt = before.canceledAt
    /\ DOMAIN after = DOMAIN before

\* C34: adminSetArrival changes only the target order's arrivalDate and
\* status: it leaves every item's stock and active flag, every other order
\* and the target order's canceledAt unchanged, whatever the target order's
\* current status.
SetArrivalChangesArrivalOnly ==
    \A body \in ArrivalBodies :
        LET out == PostUpdateArrival(loadData, body)
        IN IF out.res.status = 200
           THEN /\ AdminVerified(body)
                /\ out.data.items = items
                /\ out.data.accounts = accounts
                /\ DOMAIN out.data.orders = DOMAIN orders
                /\ \A k \in DOMAIN orders :
                      IF orders[k].id = body.orderId
                      THEN /\ SameButArrival(orders[k], out.data.orders[k])
                           /\ out.res.order[1] = out.data.orders[k]
                      ELSE out.data.orders[k] = orders[k]
           ELSE out.data = loadData

\* The administrator gave an arrival date to an order that had been
\* canceled: the order kept its canceledAt.
ArrivalSetOnCanceledOrder ==
    /\ res.status = 200 /\ res.order # NoOrder
    /\ res.order[1].arrivalDate = ArrivalDay
    /\ res.order[1].canceledAt = Now
    /\ orders[1] = res.order[1]
    /\ items[1].stock = createdStock[1]
====
